---------------------------- MODULE Spec2Model ----------------------------
(***************************************************************************)
(* Model of the Jira issue creator action (Farxa/jira-issue-creator).      *)
(*                                                                         *)
(* The repository holds several script variants:                           *)
(*   "sync"       src/index.js:1-312      createOrUpdateJiraStory with     *)
(*                                        sprints and the retrying        *)
(*                                        transport                        *)
(*   "kanban"     src/unnamed/part_001    createOrUpdateJiraStory without  *)
(*                                        sprints                          *)
(*   "refinement" src/unnamed/part_000    createJiraStory into the         *)
(*                                        "Needs refinement" sprint        *)
(*   "legacy"     src/index.js:314-423    createJiraStory after a board    *)
(*                                        and sprint lookup                *)
(*                                                                         *)
(* Texts are sequences of characters.  The two trailer literals            *)
(* "Last updated: " and "Zuletzt aktualisiert: " are kept as one element   *)
(* each: the regular expression of removeTimestamp and the template        *)
(* literals only ever use them whole.                                      *)
(***************************************************************************)
EXTENDS Integers, Sequences, FiniteSets, TLC

VARIABLES
    cfg,      \* the inputs read at startup (core.getInput) and the script that runs
    remote,   \* the remote service: issues, sprints, sprint membership, boards
    pc,       \* per run: the await the run is suspended at
    call,     \* per run: the logical transport call in progress
    loc,      \* per run: the locals of the orchestrator function
    out,      \* per run: core.setOutput / core.setFailed / core.warning calls
    log,      \* the calls issued to the remote service, in order
    faults,   \* number of failing answers the remote service has given
    now,      \* the clock
    tx        \* the text functions applied to one description

vars == <<cfg, remote, pc, call, loc, out, log, faults, now, tx>>

-----------------------------------------------------------------------------
(* Bounds *)

RunIds == {1, 2}

MaxBudget == 3
MaxBodyLen == 2
MaxTextLen == 3
MaxTextOps == 4
MaxDiffLen == 5
MaxClock == 2
MaxFaults == 2

(* Program constants *)

DefaultDelay == 1000
DefaultRetries == 3

-----------------------------------------------------------------------------
(* Texts *)

NL == "\n"
LastUpdated == "Last updated: "
ZuletztAktualisiert == "Zuletzt aktualisiert: "

Min(S) == CHOOSE x \in S : \A y \in S : x <= y

SeqsUpTo(S, n) == UNION {[1..k -> S] : k \in 0..n}

\* Date.prototype.toLocaleString("de-DE", ...): digits and punctuation, no line break
formatDateTimeGerman(date) == <<ToString(date), ".">>

\* Date.prototype.toISOString(): digits and punctuation ending in Z, no line break
toISOString(date) == <<ToString(date), "Z">>

\* /\n\nLast updated: .+$/ matches at i: two line breaks, the literal, then one
\* or more characters other than a line break up to the end of the input
\* (no m flag: $ is the end of the input; . matches no line break)
TimestampMatchAt(description, i) ==
    /\ i + 3 <= Len(description)
    /\ description[i] = NL
    /\ description[i + 1] = NL
    /\ description[i + 2] = LastUpdated
    /\ \A j \in (i + 3)..Len(description) : description[j] # NL

\* description.replace(regex, ""): the leftmost match is removed
removeTimestamp(description) ==
    LET matches == {i \in 1..Len(description) : TimestampMatchAt(description, i)}
    IN  IF matches = {} THEN description
        ELSE SubSeq(description, 1, Min(matches) - 1)

\* `${content}\n\nZuletzt aktualisiert: ${formattedTimestamp}` (index.js)
newDescription(content, formattedTimestamp) ==
    content \o <<NL, NL, ZuletztAktualisiert>> \o formattedTimestamp

\* `${issueDescription}\n\nLast updated: ${timestamp}` (part_001)
updatedDescription(issueDescription, timestamp) ==
    issueDescription \o <<NL, NL, LastUpdated>> \o timestamp

\* the description a script variant writes for `content` at `date`
StampedDescription(variant, content, date) ==
    IF variant = "sync" THEN newDescription(content, formatDateTimeGerman(date))
    ELSE IF variant = "kanban" THEN updatedDescription(content, toISOString(date))
    ELSE content

\* removeTimestamp(existingDescription) !== removeTimestamp(issueDescription)
DescriptionsDiffer(existingDescription, issueDescription) ==
    removeTimestamp(existingDescription) # removeTimestamp(issueDescription)

-----------------------------------------------------------------------------
(* Response bodies *)

\* the value of a JSON document: response.issues, response.values, response.key
NoDoc == [issues |-> <<>>, values |-> <<>>, key |-> ""]

\* a body is a sequence of pieces: white space, one JSON value, other text
Ws == [t |-> "ws", v |-> NoDoc]
Junk == [t |-> "junk", v |-> NoDoc]
Json(doc) == [t |-> "json", v |-> doc]

Max(S) == CHOOSE x \in S : \A y \in S : x >= y

\* String.prototype.trim over a body
TrimBody(body) ==
    LET keep == {i \in 1..Len(body) : body[i].t # "ws"}
    IN  IF keep = {} THEN <<>> ELSE SubSeq(body, Min(keep), Max(keep))

\* JSON.parse succeeds on: white space, one value, white space
JsonParses(body) ==
    /\ Len(TrimBody(body)) = 1
    /\ TrimBody(body)[1].t = "json"

JsonParse(body) == TrimBody(body)[1].v

-----------------------------------------------------------------------------
(* Transport: sendHttpRequest *)

\* an argument that was not passed
Undefined == [def |-> FALSE, n |-> 0]
Num(n) == [def |-> TRUE, n |-> n]

NoRequest == [op |-> "none", key |-> "", description |-> <<>>, sprint |-> 0]
Request(op, key, description, sprint) ==
    [op |-> op, key |-> key, description |-> description, sprint |-> sprint]

NoResult == [kind |-> "none", status |-> 0, body |-> <<>>, doc |-> NoDoc]

\* resolve(""), resolve(parsedData), resolve(responseBody)
ResolvedEmpty == [kind |-> "empty", status |-> 0, body |-> <<>>, doc |-> NoDoc]
ResolvedJson(doc) == [kind |-> "json", status |-> 0, body |-> <<>>, doc |-> doc]
ResolvedRaw(body) == [kind |-> "raw", status |-> 0, body |-> body, doc |-> NoDoc]
\* reject(new Error(`HTTP ${res.statusCode}: ${responseBody}`)), reject(error)
RejectedHttp(status, body) ==
    [kind |-> "http", status |-> status, body |-> body, doc |-> NoDoc]
RejectedTransport == [kind |-> "transport", status |-> 0, body |-> <<>>, doc |-> NoDoc]

IsResolved(c) == c.phase = "settled" /\ c.result.kind \in {"empty", "json", "raw"}
IsRejected(c) == c.phase = "settled" /\ c.result.kind \in {"http", "transport"}

IdleCall ==
    [phase |-> "idle", req |-> NoRequest, retries |-> Undefined, delay |-> 0,
     strict |-> FALSE, budget |-> Undefined, sent |-> 0, waits |-> <<>>,
     answers |-> <<>>, lastBody |-> <<>>, settles |-> 0, result |-> NoResult]

\* sendHttpRequest(method, path, data, retries, delay = 1000): the request is
\* written and ended.  budget, sent, waits, answers and settles record the
\* history of the logical call and lastBody is responseBody of the handler
\* that settled it; the code keeps only retries and delay.
sendHttpRequest(variant, req, retries) ==
    [phase |-> "inflight", req |-> req,
     retries |-> IF variant = "sync" THEN retries ELSE Undefined,
     delay |-> DefaultDelay,
     strict |-> (variant \in {"refinement", "legacy"}),
     budget |-> IF variant = "sync" THEN retries ELSE Undefined,
     sent |-> 1, waits |-> <<>>, answers |-> <<>>, lastBody |-> <<>>,
     settles |-> 0, result |-> NoResult]

\* res.statusCode >= 200 && res.statusCode < 300
IsSuccess(status) == status >= 200 /\ status < 300

\* faulty variant: 503 is retried like 429
IsRateLimitedOrUnavailable(status) == status \in {429, 503}

\* res.statusCode === 429
IsRateLimited(status) == status = 429

\* faulty variant: an off-by-one comparison of the budget
RetriesLeftOffByOne(retries) == retries.def /\ retries.n >= 0

\* retries > 0 (false for an argument that was not passed)
RetriesLeft(retries) == retries.def /\ retries.n > 0

\* faulty variant: the retry passes the budget on without decrementing it
NextRetriesKept(retries) == retries

\* retries - 1
NextRetries(retries) == Num(retries.n - 1)

\* faulty variant: linear instead of exponential backoff
NextDelayLinear(delay) == delay + DefaultDelay

\* delay * 2
NextDelay(delay) == delay * 2

\* faulty variant: a 2xx body that is not JSON fails the call
ParsedResponseStrict(body) ==
    IF JsonParses(body) THEN ResolvedJson(JsonParse(body))
    ELSE RejectedHttp(200, body)

\* the value a 2xx response resolves with (index.js:63-76, part_001:40-53)
ParsedResponse(body) ==
    IF TrimBody(body) = <<>> THEN ResolvedEmpty
    ELSE IF JsonParses(body) THEN ResolvedJson(JsonParse(body))
    ELSE ResolvedRaw(body)

Settle(c, result) ==
    [c EXCEPT !.phase = "settled", !.settles = @ + 1, !.result = result]

\* setTimeout(() => sendHttpRequest(..., retries - 1, delay * 2)..., delay)
ScheduleRetry(c) ==
    [c EXCEPT !.phase = "backoff", !.waits = Append(@, c.delay), !.lastBody = <<>>]

\* the res.on("end") handler for a response with this status and body
HandleResponse(c, status, body) ==
    LET c1 == [c EXCEPT !.answers = Append(@, status), !.lastBody = body]
    IN  IF IsSuccess(status)
        THEN IF c.strict
             THEN \* part_000: resolve(JSON.parse(responseData)); a throw in the
                  \* handler is an uncaught exception and the promise stays pending
                  IF JsonParses(body) THEN Settle(c1, ResolvedJson(JsonParse(body)))
                  ELSE [c1 EXCEPT !.phase = "crashed"]
             ELSE Settle(c1, ParsedResponse(body))
        ELSE IF IsRateLimited(status) /\ RetriesLeft(c.retries)
        THEN ScheduleRetry(c1)
        ELSE Settle(c1, RejectedHttp(status, body))

\* the req.on("error") handler; 0 stands for "no status" in answers
HandleError(c) ==
    LET c1 == [c EXCEPT !.answers = Append(@, 0)]
    IN  IF RetriesLeft(c.retries) THEN ScheduleRetry(c1)
        ELSE Settle(c1, RejectedTransport)

\* the timer callback: the recursive sendHttpRequest, chained to resolve/reject
HandleTimer(c) ==
    [c EXCEPT !.phase = "inflight", !.retries = NextRetries(@),
              !.delay = NextDelay(@), !.sent = @ + 1]

-----------------------------------------------------------------------------
(* The remote service *)

Keys == <<"K1", "K2", "K3">>

IssueView(issue) == [key |-> issue.key, description |-> issue.description]
SprintView(sprint) == [id |-> sprint.id, name |-> sprint.name, state |-> sprint.state]

RECURSIVE MapSeq(_, _)
MapSeq(F(_), s) == IF s = <<>> THEN <<>> ELSE <<F(Head(s))>> \o MapSeq(F, Tail(s))

\* the sprints listed for ?state=...; a service that does not apply the filter
\* lists every sprint of the board
SprintsIn(rem, states) ==
    SelectSeq(rem.sprints, LAMBDA s : IF rem.unfiltered THEN TRUE ELSE s.state \in states)

Answer(status, body, rem, fault) ==
    [status |-> status, body |-> body, remote |-> rem, fault |-> fault]

\* the answer of a healthy service to a request, and the state it leaves
ServiceAnswer(req, rem) ==
    CASE req.op = "search" ->
           Answer(200, <<Json([NoDoc EXCEPT !.issues = MapSeq(IssueView, rem.issues)])>>,
                  rem, 0)
      [] req.op = "boards" ->
           Answer(200, <<Json([NoDoc EXCEPT !.values = rem.boards])>>, rem, 0)
      [] req.op = "sprintsFuture" ->
           Answer(200, <<Json([NoDoc EXCEPT !.values = SprintsIn(rem, {"future"})])>>,
                  rem, 0)
      [] req.op = "sprintsActiveFuture" ->
           Answer(200,
                  <<Json([NoDoc EXCEPT !.values = SprintsIn(rem, {"active", "future"})])>>,
                  rem, 0)
      [] req.op = "sprintsAll" ->
           Answer(200,
                  <<Json([NoDoc EXCEPT
                            !.values = SprintsIn(rem, {"active", "future", "closed"})])>>,
                  rem, 0)
      [] req.op = "probe" ->
           Answer(200,
                  <<Json([NoDoc EXCEPT !.issues =
                      MapSeq(IssueView,
                             SelectSeq(rem.issues,
                                       LAMBDA i : i.key = req.key /\ i.sprint = req.sprint))])>>,
                  rem, 0)
      [] req.op = "create" ->
           LET key == Keys[Len(rem.issues) + 1]
           IN  Answer(201, <<Json([NoDoc EXCEPT !.key = key])>>,
                      [rem EXCEPT !.issues =
                          Append(@, [key |-> key, description |-> req.description,
                                     sprint |-> req.sprint])],
                      0)
      [] req.op = "update" ->
           Answer(204, <<>>,
                  [rem EXCEPT !.issues =
                      [i \in DOMAIN @ |->
                          IF @[i].key = req.key
                          THEN [@[i] EXCEPT !.description = req.description]
                          ELSE @[i]]],
                  0)
      [] req.op = "addToSprint" ->
           Answer(204, <<>>,
                  [rem EXCEPT !.issues =
                      [i \in DOMAIN @ |->
                          IF @[i].key = req.key
                          THEN [@[i] EXCEPT !.sprint = req.sprint]
                          ELSE @[i]]],
                  0)

Statuses == {200, 204, 299, 300, 404, 429, 503}
FaultStatuses == {429, 500}

SampleDoc == [NoDoc EXCEPT !.key = "K1"]
Bodies == SeqsUpTo({Ws, Junk, Json(SampleDoc)}, MaxBodyLen)

\* what the service may answer to the request in flight: anything to a direct
\* transport call; to a call of a run its healthy answer or, while the fault
\* bound allows, a failing status
ServerAnswers(r) ==
    IF call[r].req.op = "direct"
    THEN {Answer(s, b, remote, 0) : s \in Statuses, b \in Bodies}
    ELSE {ServiceAnswer(call[r].req, remote)}
         \cup (IF faults < MaxFaults
               THEN {Answer(s, <<Junk>>, remote, 1) : s \in FaultStatuses}
               ELSE {})

-----------------------------------------------------------------------------
(* Transport actions *)

\* res.on("end", ...)
OnResponseEnd(r) ==
    /\ call[r].phase = "inflight"
    /\ \E a \in ServerAnswers(r) :
          /\ call' = [call EXCEPT ![r] = HandleResponse(@, a.status, a.body)]
          /\ remote' = a.remote
          /\ faults' = faults + a.fault
    /\ UNCHANGED <<cfg, pc, loc, out, log, now, tx>>

\* req.on("error", ...)
OnRequestError(r) ==
    /\ call[r].phase = "inflight"
    /\ IF call[r].req.op = "direct" THEN TRUE ELSE faults < MaxFaults
    /\ call' = [call EXCEPT ![r] = HandleError(@)]
    /\ faults' = IF call[r].req.op = "direct" THEN faults ELSE faults + 1
    /\ UNCHANGED <<cfg, remote, pc, loc, out, log, now, tx>>

\* the setTimeout callback
OnRetryTimer(r) ==
    /\ call[r].phase = "backoff"
    /\ call' = [call EXCEPT ![r] = HandleTimer(@)]
    /\ UNCHANGED <<cfg, remote, pc, loc, out, log, faults, now, tx>>

-----------------------------------------------------------------------------
(* Idle values of the state a specification does not use *)

Variants == {"sync", "kanban", "refinement", "legacy"}

TargetSprint == "S1"

Config(variant, retry_count, issueDescription) ==
    [variant |-> variant, retry_count |-> retry_count,
     issueDescription |-> issueDescription, sprintName |-> TargetSprint]

NoRemote == [issues |-> <<>>, sprints |-> <<>>, boards |-> <<>>, unfiltered |-> FALSE]
NoLoc ==
    [existingIssues |-> <<>>, formattedTimestamp |-> <<>>, sprintId |-> 0,
     sprints |-> <<>>, idx |-> 0, key |-> "", sprintStatus |-> "none",
     action |-> "none"]
NoOut == [issue_key |-> <<>>, failed |-> 0, error |-> "", warnings |-> 0]
NoTx == [prev |-> <<>>, cur |-> <<>>, arg |-> <<>>, ops |-> <<>>, eq |-> FALSE]

-----------------------------------------------------------------------------
(* SpecTransport: one logical transport call against an arbitrary service *)

RetryArgs == {Undefined} \cup {Num(b) : b \in 0..MaxBudget}

InitTransport ==
    /\ \E v \in Variants : cfg = Config(v, <<>>, <<"a">>)
    /\ remote = NoRemote
    /\ pc = [r \in RunIds |-> IF r = 1 THEN "direct" ELSE "off"]
    /\ \E retries \in RetryArgs :
          call = [r \in RunIds |->
                    IF r = 1
                    THEN sendHttpRequest(cfg.variant, Request("direct", "", <<>>, 0),
                                         retries)
                    ELSE IdleCall]
    /\ loc = [r \in RunIds |-> NoLoc]
    /\ out = [r \in RunIds |-> NoOut]
    /\ log = <<>>
    /\ faults = 0
    /\ now = 1
    /\ tx = NoTx

NextTransport ==
    \E r \in RunIds : OnResponseEnd(r) \/ OnRequestError(r) \/ OnRetryTimer(r)

SpecTransport == InitTransport /\ [][NextTransport]_vars

-----------------------------------------------------------------------------
(* SpecText: the description functions applied to arbitrary texts *)

TextChars == {NL, LastUpdated, "a"}

InitText ==
    /\ \E v \in {"sync", "kanban"} : cfg = Config(v, <<>>, <<"a">>)
    /\ remote = NoRemote
    /\ pc = [r \in RunIds |-> "off"]
    /\ call = [r \in RunIds |-> IdleCall]
    /\ loc = [r \in RunIds |-> NoLoc]
    /\ out = [r \in RunIds |-> NoOut]
    /\ log = <<>>
    /\ faults = 0
    /\ now \in 1..MaxClock
    /\ \E d \in SeqsUpTo(TextChars, MaxTextLen) :
          tx = [prev |-> d, cur |-> d, arg |-> <<>>, ops |-> <<>>, eq |-> FALSE]

\* the description is written with its trailer (index.js:242,257,276; part_001:179)
TxStamp ==
    /\ Len(tx.ops) < MaxTextOps
    /\ tx' = [tx EXCEPT !.prev = tx.cur,
                        !.cur = StampedDescription(cfg.variant, tx.cur, now),
                        !.ops = Append(@, "stamp")]
    /\ UNCHANGED <<cfg, remote, pc, call, loc, out, log, faults, now>>

\* removeTimestamp(description)
TxStrip ==
    /\ Len(tx.ops) < MaxTextOps
    /\ tx' = [tx EXCEPT !.prev = tx.cur,
                        !.cur = removeTimestamp(tx.cur),
                        !.ops = Append(@, "strip")]
    /\ UNCHANGED <<cfg, remote, pc, call, loc, out, log, faults, now>>

\* the comparison of the text before the last step with the text after it
TxCompare ==
    /\ Len(tx.ops) < MaxTextOps
    /\ tx' = [tx EXCEPT !.eq = ~DescriptionsDiffer(tx.cur, tx.prev),
                        !.ops = Append(@, "compare")]
    /\ UNCHANGED <<cfg, remote, pc, call, loc, out, log, faults, now>>

NextText == TxStamp \/ TxStrip \/ TxCompare

SpecText == InitText /\ [][NextText]_vars

LastOps(n) ==
    IF Len(tx.ops) < n THEN <<>>
    ELSE SubSeq(tx.ops, Len(tx.ops) - n + 1, Len(tx.ops))

-----------------------------------------------------------------------------
(* Description reconciler: getNewDescription *)

RECURSIVE SplitLines(_)
\* text.split("\n")
SplitLines(text) ==
    LET breaks == {i \in 1..Len(text) : text[i] = NL}
    IN  IF breaks = {} THEN <<text>>
        ELSE <<SubSeq(text, 1, Min(breaks) - 1)>>
             \o SplitLines(SubSeq(text, Min(breaks) + 1, Len(text)))

RECURSIVE JoinLines(_)
\* lines.join("\n")
JoinLines(lines) ==
    IF lines = <<>> THEN <<>>
    ELSE IF Len(lines) = 1 THEN lines[1]
    ELSE lines[1] \o <<NL>> \o JoinLines(Tail(lines))

\* faulty variant: the whole incoming description counts as new
getWholeDescription(existingDescription, incomingDescription) == incomingDescription

getNewDescription(existingDescription, incomingDescription) ==
    LET existingLines == SplitLines(existingDescription)
        newLines == SplitLines(incomingDescription)
        newContent ==
            SelectSeq(newLines,
                      LAMBDA line : \A i \in DOMAIN existingLines : existingLines[i] # line)
    IN  JoinLines(newContent)

\* String.prototype.trim over a text
TrimText(text) ==
    LET keep == {i \in 1..Len(text) : text[i] \notin {NL, " "}}
    IN  IF keep = {} THEN <<>> ELSE SubSeq(text, Min(keep), Max(keep))

-----------------------------------------------------------------------------
(* SpecDiff: getNewDescription applied to arbitrary pairs of texts *)

DiffChars == {NL, "a", "b"}

\* tx.arg is existingDescription and tx.cur is the incoming description
InitDiff ==
    /\ cfg = Config("sync", <<>>, <<"a">>)
    /\ remote = NoRemote
    /\ pc = [r \in RunIds |-> "off"]
    /\ call = [r \in RunIds |-> IdleCall]
    /\ loc = [r \in RunIds |-> NoLoc]
    /\ out = [r \in RunIds |-> NoOut]
    /\ log = <<>>
    /\ faults = 0
    /\ now = 1
    /\ \E existing \in SeqsUpTo(DiffChars, MaxTextLen),
          incoming \in SeqsUpTo(DiffChars, MaxDiffLen) :
          tx = [prev |-> incoming, cur |-> incoming, arg |-> existing,
                ops |-> <<>>, eq |-> FALSE]

\* getNewDescription(existingDescription, issueDescription) (index.js:237-240)
TxDiff ==
    /\ tx.ops = <<>>
    /\ tx' = [tx EXCEPT !.prev = tx.cur,
                        !.cur = getNewDescription(tx.arg, tx.cur),
                        !.ops = <<"diff">>]
    /\ UNCHANGED <<cfg, remote, pc, call, loc, out, log, faults, now>>

NextDiff == TxDiff

SpecDiff == InitDiff /\ [][NextDiff]_vars

-----------------------------------------------------------------------------
(* Configuration *)

\* parseInt of the retry_count input: NaN for an empty input
parseInt(input) == IF input = <<>> THEN Undefined ELSE Num(input[1])

\* const retries = parseInt(core.getInput("retry_count")) || 3
Retries ==
    LET parsed == parseInt(cfg.retry_count)
    IN  IF parsed.def /\ parsed.n # 0 THEN parsed.n ELSE DefaultRetries

\* validateInputs: every required input is non-empty
InputsValid == cfg.issueDescription # <<>> /\ cfg.sprintName # ""

-----------------------------------------------------------------------------
(* Orchestrator steps shared by the scripts *)

Null == "<null>"

Settled(r, at) == pc[r] = at /\ call[r].phase = "settled"

Response(r) == call[r].result.doc

LogEntry(r, req) ==
    [run |-> r, op |-> req.op, key |-> req.key, description |-> req.description,
     sprint |-> req.sprint]

\* core.setOutput("issue_key", key) and the end of the run
EmitKey(r, key) ==
    /\ out' = [out EXCEPT ![r].issue_key = Append(@, key)]
    /\ pc' = [pc EXCEPT ![r] = "done"]

\* error.message of the error the run fails with at its current await: the
\* rejection of the transport call, or the error thrown on its answer
ErrorMessage(r) ==
    IF IsRejected(call[r])
    THEN IF call[r].result.kind = "http" THEN "HTTP" ELSE "request error"
    ELSE IF pc[r] = "start" THEN "Missing required input"
    ELSE IF pc[r] = "boards" THEN "No board found"
    ELSE "Sprint not found"

\* faulty variant: the failing run still reports the key it worked on
SyncFailWithKey(r) ==
    /\ pc' = [pc EXCEPT ![r] = "failed"]
    /\ out' = [out EXCEPT ![r].failed = @ + 2, ![r].error = ErrorMessage(r),
                          ![r].issue_key = Append(@, loc[r].key)]

\* index.js:282-285 and 310-312: setFailed in the catch block, the error is
\* thrown again and the caller's catch calls setFailed once more
SyncFail(r) ==
    /\ pc' = [pc EXCEPT ![r] = "failed"]
    /\ out' = [out EXCEPT ![r].failed = @ + 2, ![r].error = ErrorMessage(r)]

\* part_000:106-109, part_001:231-234: setFailed in the catch block
ScriptFail(r) ==
    /\ pc' = [pc EXCEPT ![r] = "failed"]
    /\ out' = [out EXCEPT ![r].failed = @ + 1, ![r].error = ErrorMessage(r)]

\* faulty variant: the create path writes to the first issue of the summary
UpsertRequest(description) == Request("update", Keys[1], description, 0)

\* createNewJiraIssue(description, sprintId): the POST body carries no sprint
CreateRequest(description) == Request("create", "", description, 0)

\* faulty variant: the update path posts a new issue
CreateInsteadOfUpdate(issueKey, description) == Request("create", "", description, 0)

\* updateJiraIssue(issueKey, description)
UpdateRequest(issueKey, description) == Request("update", issueKey, description, 0)

\* faulty variant: the issue goes to the first sprint of the board
AddToFirstSprint(issueKey, sprintId) == Request("addToSprint", issueKey, <<>>, 1)

\* addIssueToSprint(issueKey, sprintId)
AddToSprintRequest(issueKey, sprintId) == Request("addToSprint", issueKey, <<>>, sprintId)

\* a mutating call is issued: the request is sent
Issue(r, at, req, retries) ==
    /\ call' = [call EXCEPT ![r] = sendHttpRequest(cfg.variant, req, retries)]
    /\ log' = Append(log, LogEntry(r, req))
    /\ pc' = [pc EXCEPT ![r] = at]

\* a reading call is issued
Query(r, at, req, retries) ==
    /\ call' = [call EXCEPT ![r] = sendHttpRequest(cfg.variant, req, retries)]
    /\ log' = Append(log, LogEntry(r, req))
    /\ pc' = [pc EXCEPT ![r] = at]

-----------------------------------------------------------------------------
(* createOrUpdateJiraStory of index.js *)

\* index.js:213-218
SyncStart(r) ==
    /\ cfg.variant = "sync" /\ pc[r] = "start"
    /\ IF InputsValid
       THEN /\ Query(r, "search", Request("search", "", <<>>, 0), Num(Retries))
            /\ UNCHANGED out
       ELSE SyncFail(r) /\ UNCHANGED <<call, log>>
    /\ UNCHANGED <<cfg, remote, loc, faults, now, tx>>

\* index.js:218-224: the search has settled; the timestamp is taken and
\* getSprintId lists the future sprints
SyncAfterSearch(r) ==
    /\ cfg.variant = "sync" /\ Settled(r, "search")
    /\ IF IsRejected(call[r])
       THEN SyncFail(r) /\ UNCHANGED <<call, loc, log>>
       ELSE /\ loc' = [loc EXCEPT ![r].existingIssues = Response(r).issues,
                                  ![r].formattedTimestamp = formatDateTimeGerman(now)]
            /\ Query(r, "getSprintId", Request("sprintsFuture", "", <<>>, 0), Undefined)
            /\ UNCHANGED out
    /\ UNCHANGED <<cfg, remote, faults, now, tx>>

\* faulty variant: without a sprint of that name the first one listed is taken
FindSprintOrFirst(values, name) ==
    LET hits == {i \in DOMAIN values : values[i].name = name}
    IN  IF values = <<>> THEN 0
        ELSE IF hits = {} THEN values[1].id ELSE values[Min(hits)].id

\* response.values.find((s) => s.name === sprintName)
FindSprint(values, name) ==
    LET hits == {i \in DOMAIN values : values[i].name = name}
    IN  IF hits = {} THEN 0 ELSE values[Min(hits)].id

\* faulty variant: every status but "active" takes the update branch
IsNotActive(sprintStatus) == sprintStatus # "active"

\* else if (sprintStatus === "future" || sprintStatus === null)
IsFutureOrNull(sprintStatus) == sprintStatus \in {"future", Null}

\* index.js:235-273: the branch on the sprint status of the existing issue
Decide(r, sprintStatus) ==
    LET existingIssue == loc[r].existingIssues[1]
        existingDescription == existingIssue.description
        newContent == getNewDescription(existingDescription, cfg.issueDescription)
        ts == loc[r].formattedTimestamp
    IN  IF sprintStatus = "active"
        THEN IF TrimText(newContent) # <<>>
             THEN /\ Issue(r, "create", CreateRequest(newDescription(newContent, ts)),
                           Undefined)
                  /\ loc' = [loc EXCEPT ![r].sprintStatus = sprintStatus,
                                        ![r].action = "ForkNew"]
                  /\ UNCHANGED out
             ELSE /\ EmitKey(r, existingIssue.key)
                  /\ loc' = [loc EXCEPT ![r].sprintStatus = sprintStatus,
                                        ![r].action = "NoOp"]
                  /\ UNCHANGED <<call, log>>
        ELSE IF IsFutureOrNull(sprintStatus)
        THEN IF DescriptionsDiffer(existingDescription, cfg.issueDescription)
             THEN /\ Issue(r, "update",
                           UpdateRequest(existingIssue.key,
                                         newDescription(cfg.issueDescription, ts)),
                           Num(Retries))
                  /\ loc' = [loc EXCEPT ![r].sprintStatus = sprintStatus,
                                        ![r].action = "UpdateExisting",
                                        ![r].key = existingIssue.key]
                  /\ UNCHANGED out
             ELSE /\ EmitKey(r, existingIssue.key)
                  /\ loc' = [loc EXCEPT ![r].sprintStatus = sprintStatus,
                                        ![r].action = "NoOp"]
                  /\ UNCHANGED <<call, log>>
        ELSE /\ out' = [out EXCEPT ![r].warnings = @ + 1]
             /\ pc' = [pc EXCEPT ![r] = "done"]
             /\ loc' = [loc EXCEPT ![r].sprintStatus = sprintStatus,
                                   ![r].action = "Warn"]
             /\ UNCHANGED <<call, log>>

\* index.js:158-174 and 224-233, 274-277: getSprintId has settled
SyncAfterGetSprintId(r) ==
    /\ cfg.variant = "sync" /\ Settled(r, "getSprintId")
    /\ LET sprintId == FindSprint(Response(r).values, cfg.sprintName)
       IN  IF IsRejected(call[r]) \/ sprintId = 0
           THEN SyncFail(r) /\ UNCHANGED <<call, loc, log>>
           ELSE IF Len(loc[r].existingIssues) > 0
           THEN /\ Query(r, "listSprints", Request("sprintsActiveFuture", "", <<>>, 0),
                         Undefined)
                /\ loc' = [loc EXCEPT ![r].sprintId = sprintId]
                /\ UNCHANGED out
           ELSE /\ Issue(r, "create",
                         CreateRequest(newDescription(cfg.issueDescription,
                                                      loc[r].formattedTimestamp)),
                         Undefined)
                /\ loc' = [loc EXCEPT ![r].sprintId = sprintId,
                                      ![r].action = "CreateNew"]
                /\ UNCHANGED out
    /\ UNCHANGED <<cfg, remote, faults, now, tx>>

\* faulty variant: every probe asks the first sprint of the board
ProbeFirstSprint(sprint, issueKey) == Request("probe", issueKey, <<>>, 1)

\* GET rest/agile/1.0/sprint/${sprint.id}/issue?jql=key=${issueKey}
ProbeRequest(sprint, issueKey) == Request("probe", issueKey, <<>>, sprint.id)

\* index.js:176-185: the sprint list of getIssueSprintStatus has settled
SyncAfterListSprints(r) ==
    /\ cfg.variant = "sync" /\ Settled(r, "listSprints")
    /\ IF IsRejected(call[r])
       THEN SyncFail(r) /\ UNCHANGED <<call, loc, log>>
       ELSE IF Response(r).values = <<>>
       THEN Decide(r, Null)
       ELSE /\ Query(r, "probe",
                     ProbeRequest(Response(r).values[1], loc[r].existingIssues[1].key),
                     Undefined)
            /\ loc' = [loc EXCEPT ![r].sprints = Response(r).values, ![r].idx = 1]
            /\ UNCHANGED out
    /\ UNCHANGED <<cfg, remote, faults, now, tx>>

\* index.js:185-196: one membership probe has settled
SyncAfterProbe(r) ==
    /\ cfg.variant = "sync" /\ Settled(r, "probe")
    /\ IF IsRejected(call[r])
       THEN SyncFail(r) /\ UNCHANGED <<call, loc, log>>
       ELSE IF Len(Response(r).issues) > 0
       THEN Decide(r, loc[r].sprints[loc[r].idx].state)
       ELSE IF loc[r].idx < Len(loc[r].sprints)
       THEN /\ Query(r, "probe",
                     ProbeRequest(loc[r].sprints[loc[r].idx + 1],
                                  loc[r].existingIssues[1].key),
                     Undefined)
            /\ loc' = [loc EXCEPT ![r].idx = @ + 1]
            /\ UNCHANGED out
       ELSE Decide(r, Null)
    /\ UNCHANGED <<cfg, remote, faults, now, tx>>

\* faulty variant: the fork path goes on with the existing issue
ExistingIssueKey(r) ==
    IF loc[r].existingIssues # <<>> THEN loc[r].existingIssues[1].key
    ELSE Response(r).key

\* newIssue.key of the create-issue response
NewIssueKey(r) == Response(r).key

\* index.js:243-244, 277-278: the issue is created; it is added to the sprint
SyncAfterCreate(r) ==
    /\ cfg.variant = "sync" /\ Settled(r, "create")
    /\ IF IsRejected(call[r])
       THEN SyncFail(r) /\ UNCHANGED <<call, loc, log>>
       ELSE /\ Issue(r, "addToSprint",
                     AddToSprintRequest(NewIssueKey(r), loc[r].sprintId), Undefined)
            /\ loc' = [loc EXCEPT ![r].key = NewIssueKey(r)]
            /\ UNCHANGED out
    /\ UNCHANGED <<cfg, remote, faults, now, tx>>

\* index.js:262-263: the issue is updated; it is added to the sprint
SyncAfterUpdate(r) ==
    /\ cfg.variant = "sync" /\ Settled(r, "update")
    /\ IF IsRejected(call[r])
       THEN SyncFail(r) /\ UNCHANGED <<call, log>>
       ELSE /\ Issue(r, "addToSprint",
                     AddToSprintRequest(loc[r].key, loc[r].sprintId), Undefined)
            /\ UNCHANGED out
    /\ UNCHANGED <<cfg, remote, loc, faults, now, tx>>

\* index.js:245, 270, 279: the sprint assignment has settled; the key is emitted
SyncAfterAddToSprint(r) ==
    /\ cfg.variant = "sync" /\ Settled(r, "addToSprint")
    /\ IF IsRejected(call[r]) THEN SyncFail(r) ELSE EmitKey(r, loc[r].key)
    /\ UNCHANGED <<cfg, remote, call, loc, log, faults, now, tx>>

-----------------------------------------------------------------------------
(* createOrUpdateJiraStory of part_001 *)

\* part_001:172-176
KanbanStart(r) ==
    /\ cfg.variant = "kanban" /\ pc[r] = "start"
    /\ Query(r, "search", Request("search", "", <<>>, 0), Undefined)
    /\ UNCHANGED <<cfg, remote, loc, out, faults, now, tx>>

\* part_001:176-221
KanbanAfterSearch(r) ==
    /\ cfg.variant = "kanban" /\ Settled(r, "search")
    /\ LET existingIssues == Response(r).issues
           stamped == updatedDescription(cfg.issueDescription, toISOString(now))
       IN  IF IsRejected(call[r])
           THEN ScriptFail(r) /\ UNCHANGED <<call, loc, log>>
           ELSE IF Len(existingIssues) > 0
           THEN IF DescriptionsDiffer(existingIssues[1].description, cfg.issueDescription)
                THEN /\ Issue(r, "update", UpdateRequest(existingIssues[1].key, stamped),
                              Undefined)
                     /\ loc' = [loc EXCEPT ![r].existingIssues = existingIssues,
                                           ![r].key = existingIssues[1].key,
                                           ![r].action = "UpdateExisting"]
                     /\ UNCHANGED out
                ELSE /\ EmitKey(r, existingIssues[1].key)
                     /\ loc' = [loc EXCEPT ![r].existingIssues = existingIssues,
                                           ![r].action = "NoOp"]
                     /\ UNCHANGED <<call, log>>
           ELSE /\ Issue(r, "create", CreateRequest(stamped), Undefined)
                /\ loc' = [loc EXCEPT ![r].action = "CreateNew"]
                /\ UNCHANGED out
    /\ UNCHANGED <<cfg, remote, faults, now, tx>>

\* part_001:190-200
KanbanAfterUpdate(r) ==
    /\ cfg.variant = "kanban" /\ Settled(r, "update")
    /\ IF IsRejected(call[r]) THEN ScriptFail(r) ELSE EmitKey(r, loc[r].key)
    /\ UNCHANGED <<cfg, remote, call, loc, log, faults, now, tx>>

\* part_001:217-230
KanbanAfterCreate(r) ==
    /\ cfg.variant = "kanban" /\ Settled(r, "create")
    /\ IF IsRejected(call[r]) THEN ScriptFail(r) ELSE EmitKey(r, Response(r).key)
    /\ UNCHANGED <<cfg, remote, call, loc, log, faults, now, tx>>

-----------------------------------------------------------------------------
(* createJiraStory of part_000 *)

NeedsRefinement == "Needs refinement"

\* faulty variant: an empty board list is not noticed
BoardAssumed(values) == FALSE

\* boards.values.length === 0
NoBoardFound(values) == Len(values) = 0

\* part_000:53-58, 81-85
RefinementStart(r) ==
    /\ cfg.variant = "refinement" /\ pc[r] = "start"
    /\ Query(r, "boards", Request("boards", "", <<>>, 0), Undefined)
    /\ UNCHANGED <<cfg, remote, loc, out, faults, now, tx>>

\* part_000:59-66
RefinementAfterBoards(r) ==
    /\ cfg.variant = "refinement" /\ Settled(r, "boards")
    /\ IF IsRejected(call[r]) \/ NoBoardFound(Response(r).values)
       THEN ScriptFail(r) /\ UNCHANGED <<call, log>>
       ELSE /\ Query(r, "sprints", Request("sprintsAll", "", <<>>, 0), Undefined)
            /\ UNCHANGED out
    /\ UNCHANGED <<cfg, remote, loc, faults, now, tx>>

\* part_000:68-101
RefinementAfterSprints(r) ==
    /\ cfg.variant = "refinement" /\ Settled(r, "sprints")
    /\ LET sprintId == FindSprint(Response(r).values, NeedsRefinement)
       IN  IF IsRejected(call[r]) \/ sprintId = 0
           THEN ScriptFail(r) /\ UNCHANGED <<call, loc, log>>
           ELSE /\ Issue(r, "create",
                         Request("create", "", cfg.issueDescription, sprintId),
                         Undefined)
                /\ loc' = [loc EXCEPT ![r].sprintId = sprintId,
                                      ![r].action = "CreateNew"]
                /\ UNCHANGED out
    /\ UNCHANGED <<cfg, remote, faults, now, tx>>

\* part_000:102-109
RefinementAfterCreate(r) ==
    /\ cfg.variant = "refinement" /\ Settled(r, "create")
    /\ IF IsRejected(call[r]) THEN ScriptFail(r) ELSE EmitKey(r, Response(r).key)
    /\ UNCHANGED <<cfg, remote, call, loc, log, faults, now, tx>>

-----------------------------------------------------------------------------
(* createJiraStory of index.js:314-423 *)

\* index.js:398-400, 372-374, 386-388
LegacyStart(r) ==
    /\ cfg.variant = "legacy" /\ pc[r] = "start"
    /\ Query(r, "boards", Request("boards", "", <<>>, 0), Undefined)
    /\ UNCHANGED <<cfg, remote, loc, out, faults, now, tx>>

\* index.js:388-395, 374-375
LegacyAfterBoards(r) ==
    /\ cfg.variant = "legacy" /\ Settled(r, "boards")
    /\ IF IsRejected(call[r]) \/ NoBoardFound(Response(r).values)
       THEN ScriptFail(r) /\ UNCHANGED <<call, log>>
       ELSE /\ Query(r, "sprints", Request("sprintsActiveFuture", "", <<>>, 0),
                     Undefined)
            /\ UNCHANGED out
    /\ UNCHANGED <<cfg, remote, loc, faults, now, tx>>

\* index.js:376-383, 400-412
LegacyAfterSprints(r) ==
    /\ cfg.variant = "legacy" /\ Settled(r, "sprints")
    /\ LET sprintId == FindSprint(Response(r).values, cfg.sprintName)
       IN  IF IsRejected(call[r]) \/ sprintId = 0
           THEN ScriptFail(r) /\ UNCHANGED <<call, loc, log>>
           ELSE /\ Issue(r, "create", CreateRequest(cfg.issueDescription), Undefined)
                /\ loc' = [loc EXCEPT ![r].sprintId = sprintId,
                                      ![r].action = "CreateNew"]
                /\ UNCHANGED out
    /\ UNCHANGED <<cfg, remote, faults, now, tx>>

\* index.js:412-418
LegacyAfterCreate(r) ==
    /\ cfg.variant = "legacy" /\ Settled(r, "create")
    /\ IF IsRejected(call[r]) THEN ScriptFail(r) ELSE EmitKey(r, Response(r).key)
    /\ UNCHANGED <<cfg, remote, call, loc, log, faults, now, tx>>

-----------------------------------------------------------------------------
(* Spec: one run of one script against the remote service *)

\* retry_count is read by index.js only, which also validates its inputs; the
\* other scripts are given a non-empty description
RetryCountInputs == {<<>>, <<0>>, <<1>>, <<2>>}

IncomingDescriptions ==
    {<<>>, <<"a">>, <<"a", NL, "b">>, <<"c", NL, NL, "a", NL, "b">>}

\* what the remote issue may hold: a plain text, or what the script wrote before
ExistingDescriptions(variant) == {<<"a">>, StampedDescription(variant, <<"a">>, 1)}

Sprint(id, name, state) == [id |-> id, name |-> name, state |-> state]

SyncBoards ==
    {<<Sprint(1, TargetSprint, "future")>>,
     <<Sprint(1, "S0", "active"), Sprint(2, TargetSprint, "future")>>,
     <<Sprint(1, "S0", "active")>>,
     <<Sprint(1, "S0", "future")>>}

\* a board whose closed sprint is listed by a service that ignores ?state=
UnfilteredBoard == <<Sprint(1, "S0", "closed"), Sprint(2, TargetSprint, "future")>>

RefinementBoards ==
    {<<Sprint(1, NeedsRefinement, "closed")>>, <<Sprint(1, TargetSprint, "future")>>}

LegacyBoards ==
    {<<Sprint(1, TargetSprint, "future")>>, <<Sprint(1, "S0", "active")>>}

Boards == {<<>>, <<Sprint(1, "", "")>>}

ExistingIssues(variant, sprints) ==
    {<<>>} \cup
    {<<[key |-> Keys[1], description |-> d, sprint |-> sp]>> :
        d \in ExistingDescriptions(variant),
        sp \in {0} \cup {sprints[i].id : i \in DOMAIN sprints}}

InitialRemotes(variant) ==
    IF variant = "sync"
    THEN {[issues |-> i, sprints |-> s, boards |-> <<>>, unfiltered |-> FALSE] :
             s \in SyncBoards, i \in UNION {ExistingIssues(variant, b) : b \in SyncBoards}}
         \cup
         {[issues |-> i, sprints |-> UnfilteredBoard, boards |-> <<>>,
           unfiltered |-> TRUE] : i \in ExistingIssues(variant, UnfilteredBoard)}
    ELSE IF variant = "kanban"
    THEN {[issues |-> i, sprints |-> <<>>, boards |-> <<>>, unfiltered |-> FALSE] :
             i \in ExistingIssues(variant, <<>>)}
    ELSE IF variant = "refinement"
    THEN {[issues |-> <<>>, sprints |-> s, boards |-> b, unfiltered |-> FALSE] :
             s \in RefinementBoards, b \in Boards}
    ELSE {[issues |-> <<>>, sprints |-> s, boards |-> b, unfiltered |-> FALSE] :
             s \in LegacyBoards, b \in Boards}

Init ==
    /\ \E v \in Variants, rc \in RetryCountInputs, d \in IncomingDescriptions :
          /\ v # "sync" => rc = <<>> /\ d # <<>>
          /\ cfg = Config(v, rc, d)
    /\ remote \in InitialRemotes(cfg.variant)
    /\ \A i \in DOMAIN remote.issues :
          remote.issues[i].sprint \in {0} \cup {remote.sprints[j].id : j \in DOMAIN remote.sprints}
    /\ pc = [r \in RunIds |-> IF r = 1 THEN "start" ELSE "off"]
    /\ call = [r \in RunIds |-> IdleCall]
    /\ loc = [r \in RunIds |-> NoLoc]
    /\ out = [r \in RunIds |-> NoOut]
    /\ log = <<>>
    /\ faults = 0
    /\ now \in 1..MaxClock
    /\ tx = NoTx

Next ==
    \E r \in RunIds :
        \/ OnResponseEnd(r) \/ OnRequestError(r) \/ OnRetryTimer(r)
        \/ SyncStart(r) \/ SyncAfterSearch(r) \/ SyncAfterGetSprintId(r)
        \/ SyncAfterListSprints(r) \/ SyncAfterProbe(r) \/ SyncAfterCreate(r)
        \/ SyncAfterUpdate(r) \/ SyncAfterAddToSprint(r)
        \/ KanbanStart(r) \/ KanbanAfterSearch(r) \/ KanbanAfterUpdate(r)
        \/ KanbanAfterCreate(r)
        \/ RefinementStart(r) \/ RefinementAfterBoards(r) \/ RefinementAfterSprints(r)
        \/ RefinementAfterCreate(r)
        \/ LegacyStart(r) \/ LegacyAfterBoards(r) \/ LegacyAfterSprints(r)
        \/ LegacyAfterCreate(r)

Spec == Init /\ [][Next]_vars

-----------------------------------------------------------------------------
(* SpecRace: two runs of index.js with the same inputs against one service *)

\* two workflow runs started with the same summary and description; their
\* awaits interleave freely, each call is answered atomically, and the service
\* fails at most once
InitRace ==
    /\ cfg = Config("sync", <<>>, <<"a", NL, "b">>)
    /\ remote \in {[issues |-> i, sprints |-> <<Sprint(1, TargetSprint, "future")>>,
                    boards |-> <<>>, unfiltered |-> FALSE] :
                       i \in {<<>>, <<[key |-> Keys[1], description |-> <<"a">>,
                                       sprint |-> 1]>>}}
    /\ pc = [r \in RunIds |-> "start"]
    /\ call = [r \in RunIds |-> IdleCall]
    /\ loc = [r \in RunIds |-> NoLoc]
    /\ out = [r \in RunIds |-> NoOut]
    /\ log = <<>>
    /\ faults = MaxFaults - 1
    /\ now = 1
    /\ tx = NoTx

NextRace ==
    \E r \in RunIds :
        \/ OnResponseEnd(r) \/ OnRequestError(r) \/ OnRetryTimer(r)
        \/ SyncStart(r) \/ SyncAfterSearch(r) \/ SyncAfterGetSprintId(r)
        \/ SyncAfterListSprints(r) \/ SyncAfterProbe(r) \/ SyncAfterCreate(r)
        \/ SyncAfterUpdate(r) \/ SyncAfterAddToSprint(r)

SpecRace == InitRace /\ [][NextRace]_vars

-----------------------------------------------------------------------------
(* SpecRerun: the workflow runs a second time with the same inputs *)

\* one run of index.js or part_001 on a board whose target sprint is a future
\* one; the second run is not started yet and the service fails at most once
InitRerun ==
    /\ \E v \in {"sync", "kanban"}, d \in {<<"a">>, <<"a", NL, "b">>} :
          cfg = Config(v, <<>>, d)
    /\ remote \in
          {[issues |-> i,
            sprints |-> IF cfg.variant = "sync"
                        THEN <<Sprint(1, TargetSprint, "future")>> ELSE <<>>,
            boards |-> <<>>, unfiltered |-> FALSE] :
               i \in {<<>>} \cup
                     {<<[key |-> Keys[1], description |-> <<"a">>, sprint |-> sp]>> :
                         sp \in IF cfg.variant = "sync" THEN {0, 1} ELSE {0}}}
    /\ pc = [r \in RunIds |-> IF r = 1 THEN "start" ELSE "off"]
    /\ call = [r \in RunIds |-> IdleCall]
    /\ loc = [r \in RunIds |-> NoLoc]
    /\ out = [r \in RunIds |-> NoOut]
    /\ log = <<>>
    /\ faults = MaxFaults - 1
    /\ now = 1
    /\ tx = NoTx

\* the workflow is triggered again after run r - 1 has ended; time has passed
Rerun(r) ==
    /\ r - 1 \in RunIds
    /\ pc[r] = "off" /\ pc[r - 1] \in {"done", "failed"}
    /\ now < MaxClock
    /\ pc' = [pc EXCEPT ![r] = "start"]
    /\ now' = now + 1
    /\ UNCHANGED <<cfg, remote, call, loc, out, log, faults, tx>>

NextRerun ==
    \E r \in RunIds :
        \/ OnResponseEnd(r) \/ OnRequestError(r) \/ OnRetryTimer(r)
        \/ SyncStart(r) \/ SyncAfterSearch(r) \/ SyncAfterGetSprintId(r)
        \/ SyncAfterListSprints(r) \/ SyncAfterProbe(r) \/ SyncAfterCreate(r)
        \/ SyncAfterUpdate(r) \/ SyncAfterAddToSprint(r)
        \/ KanbanStart(r) \/ KanbanAfterSearch(r) \/ KanbanAfterUpdate(r)
        \/ KanbanAfterCreate(r)
        \/ Rerun(r)

SpecRerun == InitRerun /\ [][NextRerun]_vars

-----------------------------------------------------------------------------
(* Claims about one logical transport call *)

Budgeted == {r \in RunIds : call[r].phase # "idle" /\ call[r].budget.def}

Answered(c, k) == Len(c.answers) = k /\ k >= 1

Only429Before(c, k) == \A i \in 1..(k - 1) : c.answers[i] = 429

Is2xx(status) == status \in 200..299

RECURSIVE Pow2(_)
Pow2(n) == IF n = 0 THEN 1 ELSE 2 * Pow2(n - 1)

\* C1: with budget B, a call whose every attempt is answered 429 sends B
\* retries (B+1 requests) and then fails with HTTP 429, and not earlier; a call
\* whose k-th attempt is answered 2xx after 429s has sent k-1 retries and
\* succeeds, and k <= B+1.
C1_RetriesOn429 ==
    \A r \in Budgeted :
        LET c == call[r]
            B == c.budget.n
            k == Len(c.answers)
        IN  /\ (Only429Before(c, k + 1) /\ k = B + 1) =>
                   /\ IsRejected(c)
                   /\ c.result.kind = "http" /\ c.result.status = 429
                   /\ c.sent = B + 1 /\ Len(c.waits) = B
            /\ (Only429Before(c, k + 1) /\ k <= B) =>
                   /\ c.phase \in {"inflight", "backoff"}
                   /\ c.sent <= B + 1
            /\ (Answered(c, k) /\ Is2xx(c.answers[k]) /\ Only429Before(c, k)) =>
                   /\ IsResolved(c)
                   /\ c.sent = k /\ Len(c.waits) = k - 1
                   /\ k <= B + 1

W_C1_BudgetExhaustedOn429 ==
    \E r \in Budgeted :
        /\ call[r].budget.n >= 2
        /\ Len(call[r].answers) = call[r].budget.n + 1
        /\ Only429Before(call[r], Len(call[r].answers) + 1)
        /\ IsRejected(call[r])

\* C3: the budget is one counter for both retry causes: after any mix of 429
\* answers and connection errors the remaining budget is B minus the retries
\* sent, at most B+1 requests are sent, the call settles exactly once (and has
\* settled once B+1 attempts are answered), and a connection error with no
\* budget left fails the call with the transport error.
C3_SharedBudget ==
    \A r \in Budgeted :
        LET c == call[r]
            B == c.budget.n
            k == Len(c.answers)
        IN  /\ c.retries.n = B - (c.sent - 1)
            /\ c.sent <= B + 1
            /\ Len(c.waits) = IF c.phase = "backoff" THEN c.sent ELSE c.sent - 1
            /\ c.settles = IF c.phase = "settled" THEN 1 ELSE 0
            /\ k = B + 1 => c.phase = "settled"
            /\ (Answered(c, k) /\ c.answers[k] = 0 /\ k = B + 1) =>
                   IsRejected(c) /\ c.result.kind = "transport"
            /\ (Answered(c, k) /\ c.answers[k] = 0 /\ k <= B) =>
                   c.phase \in {"inflight", "backoff"}

W_C3_MixedCausesSettled ==
    \E r \in Budgeted :
        /\ call[r].budget.n >= 2
        /\ \E i, j \in DOMAIN call[r].answers :
              call[r].answers[i] = 429 /\ call[r].answers[j] = 0
        /\ Len(call[r].answers) = call[r].budget.n + 1
        /\ call[r].answers[Len(call[r].answers)] = 0
        /\ call[r].result.kind = "transport"

\* C4: the wait before the n-th retry of a call is DefaultDelay * 2^(n-1),
\* whatever caused the retry.
C4_BackoffDoubles ==
    \A r \in Budgeted :
        \A n \in DOMAIN call[r].waits :
            /\ call[r].waits[n] = DefaultDelay * Pow2(n - 1)
            /\ n > 1 => call[r].waits[n] = 2 * call[r].waits[n - 1]

W_C4_ThreeRetriesBothCauses ==
    \E r \in Budgeted :
        /\ Len(call[r].waits) >= 3
        /\ \E i, j \in 1..3 : call[r].answers[i] = 429 /\ call[r].answers[j] = 0

\* C5: an answer with a status outside [200,300) other than 429 fails the call
\* at once with that status and body; no retry is scheduled for it and the
\* remaining budget is what it was when the request was sent.
C5_OtherStatusFailsAtOnce ==
    \A r \in RunIds :
        LET c == call[r]
            k == Len(c.answers)
        IN  (Answered(c, k) /\ ~Is2xx(c.answers[k]) /\ c.answers[k] \notin {0, 429}) =>
                /\ IsRejected(c)
                /\ c.result.kind = "http"
                /\ c.result.status = c.answers[k]
                /\ c.result.body = c.lastBody
                /\ c.sent = k /\ Len(c.waits) = k - 1
                /\ c.budget.def => c.retries.n = c.budget.n - (k - 1)

W_C5_FailsWithBudgetLeft ==
    \E r \in Budgeted :
        /\ IsRejected(call[r])
        /\ call[r].result.status \in {404, 503}
        /\ call[r].result.body # <<>>
        /\ call[r].retries.n >= 1
        /\ Len(call[r].answers) >= 2

BodyIsBlank(body) == \A i \in DOMAIN body : body[i].t = "ws"

BodyIsJson(body) ==
    \E i \in DOMAIN body :
        body[i].t = "json" /\ \A j \in DOMAIN body \ {i} : body[j].t = "ws"

BodyJsonValue(body) == body[CHOOSE i \in DOMAIN body : body[i].t = "json"].v

\* C6: sendHttpRequest of index.js and part_001: a 2xx answer never fails the
\* call; a blank body resolves with the empty marker, a body that is one JSON
\* value with the parsed value, any other body with the raw text.
C6_SuccessNeverFails ==
    \A r \in RunIds :
        LET c == call[r]
            k == Len(c.answers)
        IN  (~c.strict /\ Answered(c, k) /\ Is2xx(c.answers[k])) =>
                /\ IsResolved(c)
                /\ BodyIsBlank(c.lastBody) => c.result.kind = "empty"
                /\ BodyIsJson(c.lastBody) =>
                       /\ c.result.kind = "json"
                       /\ c.result.doc = BodyJsonValue(c.lastBody)
                /\ (~BodyIsBlank(c.lastBody) /\ ~BodyIsJson(c.lastBody)) =>
                       /\ c.result.kind = "raw"
                       /\ c.result.body = c.lastBody

W_C6_RawTextAfterRetry ==
    \E r \in RunIds :
        /\ ~call[r].strict
        /\ Len(call[r].answers) >= 2
        /\ Is2xx(call[r].answers[Len(call[r].answers)])
        /\ call[r].result.kind = "raw"
        /\ \E i \in DOMAIN call[r].lastBody : call[r].lastBody[i].t = "json"

-----------------------------------------------------------------------------
(* Claims about the description functions *)

\* C8: equalModuloTrailer(d, withTrailer(d, t)) is true: a description
\* compared with the same description as the program writes it is equal.
C8_WrittenEqualsIncoming ==
    LastOps(2) = <<"stamp", "compare">> => tx.eq

\* C9: stripTrailer is idempotent: stripping a stripped text changes nothing.
C9_StripIdempotent ==
    LastOps(2) = <<"strip", "strip">> => tx.cur = tx.prev

-----------------------------------------------------------------------------
(* Claims about a run *)

\* C2: every remote call of the run is retried on a 429 answer or a connection
\* error until the configured budget is used up: a call of index.js that fails
\* on such an answer has sent Retries + 1 requests.
C2_EveryCallRetried ==
    \A r \in RunIds :
        LET c == call[r]
        IN  (/\ cfg.variant = "sync"
             /\ c.req.op \notin {"none", "direct"}
             /\ Retries > 0
             /\ IsRejected(c)
             /\ c.answers[Len(c.answers)] \in {0, 429})
            => c.sent = Retries + 1

CreatesOf(r) == {i \in DOMAIN log : log[i].run = r /\ log[i].op = "create"}

\* C7: a run that found an existing issue and decided UpdateExisting or NoOp
\* issues no create-issue call, and the service holds no more issues than the
\* search returned.
C7_NoCreateUnlessFork ==
    \A r \in RunIds :
        (Len(loc[r].existingIssues) > 0 /\ loc[r].action \in {"UpdateExisting", "NoOp"})
        => /\ CreatesOf(r) = {}
           /\ Len(remote.issues) = Len(loc[r].existingIssues)

W_C7_UpdatedExisting ==
    \E r \in RunIds :
        /\ pc[r] = "done"
        /\ Len(loc[r].existingIssues) > 0
        /\ loc[r].action = "UpdateExisting"
        /\ \E i \in DOMAIN log : log[i].op = "update"
        /\ remote.issues[1].description # <<"a">>

EndsWithTrailer(description) ==
    \E i \in 1..Len(description) :
        /\ i + 3 <= Len(description)
        /\ description[i] = NL
        /\ description[i + 1] = NL
        /\ description[i + 2] \in {LastUpdated, ZuletztAktualisiert}
        /\ \A j \in (i + 3)..Len(description) : description[j] # NL

\* C10: every description written in a create-issue or update-issue body ends
\* with two line breaks, the trailer literal and a timestamp.
C10_WrittenDescriptionsStamped ==
    \A i \in DOMAIN log :
        log[i].op \in {"create", "update"} => EndsWithTrailer(log[i].description)

-----------------------------------------------------------------------------
(* Claims about the branches of a run *)

\* the calls of run r, and those of them that change the remote service
CallsOf(r) == SelectSeq(log, LAMBDA e : e.run = r)

MutatingCallsOf(r) ==
    SelectSeq(log, LAMBDA e : e.run = r /\ e.op \in {"create", "update", "addToSprint"})

\* the ids of the sprints of the board that carry the configured name
TargetSprintIds ==
    {remote.sprints[i].id : i \in {j \in DOMAIN remote.sprints :
                                     remote.sprints[j].name = cfg.sprintName}}

\* C11: a run of index.js whose search found no issue and whose target sprint
\* resolved issues one create-issue call, then at most one sprint-assignment
\* call, which assigns the created issue to the target sprint, and no update;
\* when it ends it has issued both, the issue is in the target sprint and the
\* created key is its only output.
C11_CreateNewThenAssign ==
    \A r \in RunIds :
        (cfg.variant = "sync" /\ loc[r].action = "CreateNew") =>
            LET m == MutatingCallsOf(r)
            IN  /\ Len(m) \in {1, 2}
                /\ m[1].op = "create"
                /\ Len(m) = 2 =>
                      /\ m[2].op = "addToSprint"
                      /\ Len(remote.issues) = 1
                      /\ m[2].key = remote.issues[1].key
                      /\ m[2].sprint \in TargetSprintIds
                /\ pc[r] = "done" =>
                      /\ Len(m) = 2
                      /\ remote.issues[1].sprint \in TargetSprintIds
                      /\ out[r].issue_key = <<remote.issues[1].key>>

W_C11_CreatedAndAssigned ==
    \E r \in RunIds :
        /\ cfg.variant = "sync" /\ loc[r].action = "CreateNew" /\ pc[r] = "done"
        /\ Len(remote.sprints) = 2
        /\ remote.issues[1].sprint = 2
        /\ out[r].issue_key = <<"K1">>

\* the text without the trailer the running script appends to what it writes
WithoutWrittenTrailer(text) ==
    LET cuts == {k \in 0..Len(text) :
                    \E date \in 1..MaxClock :
                        text = StampedDescription(cfg.variant, SubSeq(text, 1, k), date)}
    IN  IF cuts = {} \/ cfg.variant \notin {"sync", "kanban"} THEN text
        ELSE SubSeq(text, 1, Min(cuts))

EqualModuloWrittenTrailer(a, b) == WithoutWrittenTrailer(a) = WithoutWrittenTrailer(b)

\* the existing issue of run r is in a future sprint or in none and its
\* description is the incoming one up to the trailer
FoundUnchanged(r) ==
    /\ Len(loc[r].existingIssues) > 0
    /\ loc[r].action # "none"
    /\ cfg.variant = "sync" => loc[r].sprintStatus \in {"future", Null}
    /\ EqualModuloWrittenTrailer(loc[r].existingIssues[1].description,
                                 cfg.issueDescription)

\* C12: a run that found an existing issue in a future sprint or in no sprint,
\* whose description equals the incoming one modulo the trailer, issues no
\* update, no create and no sprint assignment, and emits the existing key.
C12_UnchangedIsNoOp ==
    \A r \in RunIds :
        (cfg.variant \in {"sync", "kanban"} /\ FoundUnchanged(r)) =>
            /\ MutatingCallsOf(r) = <<>>
            /\ pc[r] = "done" /\ out[r].issue_key = <<loc[r].existingIssues[1].key>>

\* the same for part_001 alone, whose trailer literal the comparison strips
C12_UnchangedIsNoOpKanban == cfg.variant = "kanban" => C12_UnchangedIsNoOp

RECURSIVE PickLines(_, _)
\* the lines of `lines`, in order, that satisfy Keep
PickLines(Keep(_), lines) ==
    IF lines = <<>> THEN <<>>
    ELSE (IF Keep(Head(lines)) THEN <<Head(lines)>> ELSE <<>>)
         \o PickLines(Keep, Tail(lines))

LineSet(text) == {SplitLines(text)[i] : i \in DOMAIN SplitLines(text)}

NonBlank(line) == \E j \in DOMAIN line : line[j] \notin {" ", NL}

\* the incoming lines that are no line of the existing description
AbsentLines(existing, incoming) ==
    PickLines(LAMBDA line : line \notin LineSet(existing), SplitLines(incoming))

\* run r found its existing issue in an active sprint
ActiveFound(r) ==
    /\ cfg.variant = "sync"
    /\ Len(loc[r].existingIssues) > 0
    /\ loc[r].sprintStatus = "active"

AbsentLinesOf(r) ==
    AbsentLines(loc[r].existingIssues[1].description, cfg.issueDescription)

\* run r forks: one create of `lines` plus the trailer, then the assignment of
\* the new issue to the target sprint, and the new key as the only output
Forked(r, lines) ==
    LET m == MutatingCallsOf(r)
    IN  /\ Len(m) \in {1, 2}
        /\ m[1].op = "create"
        /\ m[1].description =
               JoinLines(lines) \o <<NL, NL, ZuletztAktualisiert>>
                                \o formatDateTimeGerman(now)
        /\ Len(m) = 2 =>
              /\ m[2].op = "addToSprint"
              /\ Len(remote.issues) = 2
              /\ m[2].key = remote.issues[2].key
              /\ m[2].sprint \in TargetSprintIds
        /\ pc[r] = "done" =>
              /\ Len(m) = 2
              /\ remote.issues[2].sprint \in TargetSprintIds
              /\ out[r].issue_key = <<remote.issues[2].key>>

NothingCreated(r) ==
    /\ MutatingCallsOf(r) = <<>>
    /\ pc[r] = "done"
    /\ out[r].issue_key = <<loc[r].existingIssues[1].key>>

\* C13 as stated: with an existing issue in an active sprint and a non-blank
\* incoming line absent from the existing description, the run creates one
\* issue whose description is the non-blank absent lines, in incoming order,
\* plus the trailer, assigns it to the target sprint and emits its key; with
\* no such line it creates nothing and emits the existing key.
C13_ForkHoldsNonBlankNewLines ==
    \A r \in RunIds :
        ActiveFound(r) =>
            IF \E i \in DOMAIN AbsentLinesOf(r) : NonBlank(AbsentLinesOf(r)[i])
            THEN Forked(r, PickLines(NonBlank, AbsentLinesOf(r)))
            ELSE NothingCreated(r)

\* C13 amended: the description of the new issue is every incoming line that
\* is no line of the existing description, blank ones included, in incoming
\* order, plus the trailer.
C13_ForkHoldsNewLines ==
    \A r \in RunIds :
        ActiveFound(r) =>
            IF \E i \in DOMAIN AbsentLinesOf(r) : NonBlank(AbsentLinesOf(r)[i])
            THEN Forked(r, AbsentLinesOf(r))
            ELSE NothingCreated(r)

W_C13_ForkedWithBlankLine ==
    \E r \in RunIds :
        /\ ActiveFound(r) /\ pc[r] = "done" /\ loc[r].action = "ForkNew"
        /\ AbsentLinesOf(r) = <<<<"c">>, <<>>, <<"b">>>>
        /\ remote.issues[2].description =
               <<"c", NL, NL, "b", NL, NL, ZuletztAktualisiert>> \o formatDateTimeGerman(now)
        /\ out[r].issue_key = <<"K2">>

\* C14: a run that found its existing issue in an active sprint issues no
\* update and no sprint assignment with the key of that issue, whether it forks
\* or does nothing, and the issue keeps its description on the service.
C14_ActiveIssueUntouched ==
    \A r \in RunIds :
        ActiveFound(r) =>
            LET existingIssue == loc[r].existingIssues[1]
            IN  /\ loc[r].action \in {"ForkNew", "NoOp"}
                /\ \A i \in DOMAIN log :
                      (log[i].run = r /\ log[i].op \in {"update", "addToSprint"})
                      => log[i].key # existingIssue.key
                /\ remote.issues[1].key = existingIssue.key
                /\ remote.issues[1].description = existingIssue.description

W_C14_ForkedBesideExisting ==
    \E r \in RunIds :
        /\ ActiveFound(r) /\ loc[r].action = "ForkNew" /\ pc[r] = "done"
        /\ \E i \in DOMAIN log : log[i].op = "addToSprint" /\ log[i].key = "K2"
        /\ remote.issues[1].sprint = 1

-----------------------------------------------------------------------------
(* Claims about getNewDescription *)

\* C15: getNewDescription(existing, incoming) is the lines of incoming that
\* are no line of existing, each as often and in the order it occurs in
\* incoming, joined with line breaks; getNewDescription(x, x) is empty.
C15_DiffIsAbsentLines ==
    tx.ops = <<"diff">> =>
        LET existing == tx.arg
            incoming == tx.prev
            result == tx.cur
            kept == {i \in DOMAIN SplitLines(incoming) :
                        SplitLines(incoming)[i] \notin LineSet(existing)}
        IN  /\ result = JoinLines(AbsentLines(existing, incoming))
            /\ Len(AbsentLines(existing, incoming)) = Cardinality(kept)
            /\ existing = incoming => result = <<>>

W_C15_OrderAndMultiplicity ==
    /\ tx.ops = <<"diff">>
    /\ tx.arg = <<"b">>
    /\ tx.prev = <<"a", NL, "b", NL, "a">>
    /\ tx.cur = <<"a", NL, "a">>

W_C15_SameTextIsEmpty ==
    /\ tx.ops = <<"diff">>
    /\ tx.arg = tx.prev /\ Len(tx.arg) = MaxTextLen
    /\ tx.cur = <<>>

-----------------------------------------------------------------------------
(* Claims about failures and outputs *)

\* the effect of a committed create or update is on the service
Committed(e) ==
    IF e.op = "create"
    THEN \E i \in DOMAIN remote.issues : remote.issues[i].description = e.description
    ELSE IF e.op = "update"
    THEN \E i \in DOMAIN remote.issues :
            /\ remote.issues[i].key = e.key
            /\ remote.issues[i].description = e.description
    ELSE TRUE

\* C16: a run that has failed, at whatever step, has emitted no issue key, has
\* reported the failure, has no call in flight, has issued no call after the
\* one it failed on, and every create or update it got through before is
\* still on the service.
C16_FailureEmitsNothingKeepsCommits ==
    \A r \in RunIds :
        pc[r] = "failed" =>
            LET calls == CallsOf(r)
            IN  /\ out[r].issue_key = <<>>
                /\ out[r].failed >= 1 /\ out[r].error # ""
                /\ call[r].phase \in {"idle", "settled"}
                /\ calls # <<>> =>
                      /\ calls[Len(calls)].op = call[r].req.op
                      /\ calls[Len(calls)].key = call[r].req.key
                /\ \A i \in 1..(Len(calls) - 1) : Committed(calls[i])

W_C16_AssignmentFailedAfterCreate ==
    \E r \in RunIds :
        /\ pc[r] = "failed" /\ cfg.variant = "sync"
        /\ loc[r].action = "CreateNew"
        /\ call[r].req.op = "addToSprint" /\ IsRejected(call[r])
        /\ Len(remote.issues) = 1 /\ remote.issues[1].sprint = 0
        /\ out[r].issue_key = <<>>

W_C16_AssignmentFailedAfterUpdate ==
    \E r \in RunIds :
        /\ pc[r] = "failed" /\ cfg.variant = "sync"
        /\ loc[r].action = "UpdateExisting"
        /\ call[r].req.op = "addToSprint" /\ IsRejected(call[r])
        /\ remote.issues[1].description = newDescription(cfg.issueDescription,
                                                        loc[r].formattedTimestamp)

\* C17: a run whose board lookup is answered, with no board, fails with the "No board
\* found" error, having issued the board lookup only: no sprint listing, no
\* create, and it emits no output.
C17_NoBoardFails ==
    \A r \in RunIds :
        (/\ cfg.variant \in {"refinement", "legacy"}
         /\ pc[r] \notin {"off", "start", "boards"}
         /\ remote.boards = <<>>
         /\ ~(call[r].req.op = "boards" /\ IsRejected(call[r])))
        => /\ pc[r] = "failed"
           /\ out[r].error = "No board found"
           /\ out[r].failed = 1
           /\ out[r].issue_key = <<>>
           /\ Len(CallsOf(r)) = 1 /\ CallsOf(r)[1].op = "boards"
           /\ remote.issues = <<>>

W_C17_NoBoardRefinement ==
    \E r \in RunIds :
        /\ cfg.variant = "refinement" /\ pc[r] = "failed"
        /\ IsResolved(call[r]) /\ call[r].req.op = "boards"
        /\ Response(r).values = <<>>
        /\ out[r].error = "No board found"

W_C17_NoBoardLegacy ==
    \E r \in RunIds :
        /\ cfg.variant = "legacy" /\ pc[r] = "failed"
        /\ IsResolved(call[r]) /\ call[r].req.op = "boards"
        /\ Response(r).values = <<>>
        /\ out[r].error = "No board found"

\* C18: every run that has ended without failure has emitted exactly one issue
\* key, on every branch, the branch that only warns about an unexpected sprint
\* status included.
C18_DoneEmitsOneKey ==
    \A r \in RunIds : pc[r] = "done" => Len(out[r].issue_key) = 1

\* the same on every branch but the warning one
C18_DoneEmitsOneKeyUnlessWarned ==
    \A r \in RunIds :
        (pc[r] = "done" /\ loc[r].action # "Warn") => Len(out[r].issue_key) = 1

\* run r found its existing issue in a sprint that is neither active nor future
UnexpectedFound(r) ==
    /\ cfg.variant = "sync"
    /\ Len(loc[r].existingIssues) > 0
    /\ loc[r].sprintStatus \notin {"none", "active", "future", Null}

\* C19: a run that found its existing issue in a sprint whose state is neither
\* active nor future nor null issues no create, update or sprint assignment
\* and does not fail: it ends having reported one warning.
C19_UnexpectedStatusOnlyWarns ==
    \A r \in RunIds :
        UnexpectedFound(r) =>
            /\ MutatingCallsOf(r) = <<>>
            /\ pc[r] = "done"
            /\ out[r].failed = 0
            /\ out[r].warnings = 1
            /\ Len(remote.issues) = 1
            /\ remote.issues[1].description = loc[r].existingIssues[1].description

W_C19_WarnedOnClosedSprint ==
    \E r \in RunIds :
        /\ UnexpectedFound(r)
        /\ loc[r].sprintStatus = "closed"
        /\ loc[r].action = "Warn"
        /\ pc[r] = "done" /\ out[r].warnings = 1

-----------------------------------------------------------------------------
(* Claims about concurrent runs *)

\* the runs whose search found nothing and that went on to create an issue
Creators == {r \in RunIds : loc[r].action = "CreateNew"}

\* C20: nothing serialises two runs with the same summary: when both searches
\* are answered before either create, both runs take the CreateNew path, each
\* issues its own create, and when both have ended the service holds two
\* issues with that summary and different keys, one emitted by each run.
C20_RacingRunsBothCreate ==
    \A r1, r2 \in Creators :
        r1 # r2 =>
            /\ CreatesOf(r1) # {} /\ CreatesOf(r2) # {}
            /\ (pc[r1] = "done" /\ pc[r2] = "done") =>
                  /\ Len(remote.issues) = 2
                  /\ remote.issues[1].key # remote.issues[2].key
                  /\ remote.issues[1].description = remote.issues[2].description
                  /\ out[r1].issue_key # out[r2].issue_key
                  /\ {out[r1].issue_key[1], out[r2].issue_key[1]}
                         = {remote.issues[1].key, remote.issues[2].key}

W_C20_TwoIssuesSameSummary ==
    /\ Creators = RunIds
    /\ \A r \in RunIds : pc[r] = "done"
    /\ Len(remote.issues) = 2
    /\ remote.issues[1].description = remote.issues[2].description
    /\ out[1].issue_key = <<"K2">> /\ out[2].issue_key = <<"K1">>

-----------------------------------------------------------------------------
(* Claims about the order of the calls of a run *)

\* run r found its existing issue in a future sprint or in none, and the
\* description of the issue is not the incoming one up to the trailer
FoundChanged(r) ==
    /\ cfg.variant = "sync"
    /\ Len(loc[r].existingIssues) > 0
    /\ loc[r].sprintStatus \in {"future", Null}
    /\ ~EqualModuloWrittenTrailer(loc[r].existingIssues[1].description,
                                  cfg.issueDescription)

\* C21: a run that found its existing issue in a future sprint or in none,
\* with a description that differs from the incoming one modulo the trailer,
\* issues one update of that issue with the whole incoming description plus a
\* trailer of the current time; only when the update is on the service does it
\* issue one assignment of the existing key to the target sprint; it issues no
\* create, and when it ends it has emitted the existing key.
C21_UpdateThenAssign ==
    \A r \in RunIds :
        FoundChanged(r) =>
            LET m == MutatingCallsOf(r)
                existingIssue == loc[r].existingIssues[1]
            IN  /\ Len(m) \in {1, 2}
                /\ m[1].op = "update"
                /\ m[1].key = existingIssue.key
                /\ m[1].description =
                       cfg.issueDescription \o <<NL, NL, ZuletztAktualisiert>>
                                            \o formatDateTimeGerman(now)
                /\ Len(m) = 2 =>
                      /\ m[2].op = "addToSprint"
                      /\ m[2].key = existingIssue.key
                      /\ m[2].sprint \in TargetSprintIds
                      /\ Committed(m[1])
                /\ pc[r] = "done" =>
                      /\ Len(m) = 2
                      /\ remote.issues[1].sprint \in TargetSprintIds
                      /\ out[r].issue_key = <<existingIssue.key>>

W_C21_UpdatedThenAssigned ==
    \E r \in RunIds :
        /\ FoundChanged(r) /\ pc[r] = "done"
        /\ loc[r].sprintStatus = Null
        /\ cfg.issueDescription = <<"a", NL, "b">>
        /\ remote.issues[1].description =
               <<"a", NL, "b", NL, NL, ZuletztAktualisiert>> \o formatDateTimeGerman(now)
        /\ remote.issues[1].sprint \in TargetSprintIds
        /\ out[r].issue_key = <<"K1">>

\* the membership probes of run r, in the order they were sent
ProbesOf(r) == SelectSeq(log, LAMBDA e : e.run = r /\ e.op = "probe")

\* run r has decided on the sprint status and no sprint assignment of the run
\* has been sent, so the issue is in the sprint it was found in
StatusKnown(r) ==
    /\ cfg.variant = "sync"
    /\ loc[r].sprintStatus # "none"
    /\ \A i \in DOMAIN log : ~(log[i].run = r /\ log[i].op = "addToSprint")

\* C22: the sprint status lookup probes the listed sprints one at a time in
\* the listed order for the found issue, stops at the first sprint that holds
\* it and returns the state of that sprint, and returns null after probing
\* every listed sprint without a hit; null takes the branch "future" takes.
C22_ProbesInOrderFirstMatchWins ==
    \A r \in RunIds :
        LET probes == ProbesOf(r)
            listed == loc[r].sprints
        IN  /\ Len(probes) = loc[r].idx
            /\ Len(probes) <= Len(listed)
            /\ \A k \in DOMAIN probes :
                  /\ probes[k].sprint = listed[k].id
                  /\ probes[k].key = loc[r].existingIssues[1].key
            /\ StatusKnown(r) =>
                  LET holding == {j \in DOMAIN listed :
                                     listed[j].id = remote.issues[1].sprint}
                  IN  IF holding = {}
                      THEN /\ loc[r].sprintStatus = Null
                           /\ Len(probes) = Len(listed)
                      ELSE /\ loc[r].sprintStatus = listed[Min(holding)].state
                           /\ Len(probes) = Min(holding)
            /\ loc[r].sprintStatus \in {"future", Null} =>
                  loc[r].action =
                      IF DescriptionsDiffer(loc[r].existingIssues[1].description,
                                            cfg.issueDescription)
                      THEN "UpdateExisting" ELSE "NoOp"

W_C22_StoppedAtFirstSprint ==
    \E r \in RunIds :
        /\ StatusKnown(r)
        /\ Len(loc[r].sprints) = 2
        /\ Len(ProbesOf(r)) = 1
        /\ loc[r].sprintStatus = "active"

W_C22_NullAfterAllSprints ==
    \E r \in RunIds :
        /\ StatusKnown(r)
        /\ Len(loc[r].sprints) = 2
        /\ Len(ProbesOf(r)) = 2
        /\ loc[r].sprintStatus = Null
        /\ loc[r].action = "UpdateExisting"

W_C22_FoundInSecondSprint ==
    \E r \in RunIds :
        /\ StatusKnown(r)
        /\ Len(ProbesOf(r)) = 2
        /\ loc[r].sprintStatus = "future"

\* no sprint that the service lists for ?state=future has the configured name
NoTargetSprint ==
    \A i \in DOMAIN remote.sprints :
        (remote.sprints[i].state = "future" \/ remote.unfiltered)
        => remote.sprints[i].name # cfg.sprintName

\* the positions in the log of the calls `op` of run r
CallsAt(r, op) == {i \in DOMAIN log : log[i].run = r /\ log[i].op = op}

\* C23: a run of index.js sends its search and its target sprint lookup, and
\* has the sprint resolved, before any create, update or sprint assignment;
\* when no listed sprint has exactly the configured name the run gets no
\* further than the sprint lookup, fails with "Sprint not found" once that is
\* answered, and has issued no create, update or sprint assignment and no
\* output, also when the search found an issue with an unchanged description.
C23_ResolveBeforeMutating ==
    \A r \in RunIds :
        cfg.variant = "sync" =>
            /\ \A i \in DOMAIN log :
                  (log[i].run = r /\ log[i].op \in {"create", "update", "addToSprint"})
                  => /\ \E j \in CallsAt(r, "search") : j < i
                     /\ \E j \in CallsAt(r, "sprintsFuture") : j < i
                     /\ loc[r].sprintId \in TargetSprintIds
            /\ NoTargetSprint =>
                  /\ MutatingCallsOf(r) = <<>>
                  /\ out[r].issue_key = <<>>
                  /\ pc[r] \in {"off", "start", "search", "getSprintId", "failed"}
                  /\ (call[r].req.op = "sprintsFuture" /\ IsResolved(call[r])
                      /\ pc[r] # "getSprintId")
                     => pc[r] = "failed" /\ out[r].error = "Sprint not found"

W_C23_WouldBeNoOpFails ==
    \E r \in RunIds :
        /\ cfg.variant = "sync" /\ NoTargetSprint
        /\ \E i \in DOMAIN remote.sprints : remote.sprints[i].state = "future"
        /\ pc[r] = "failed" /\ out[r].error = "Sprint not found"
        /\ Len(loc[r].existingIssues) > 0
        /\ loc[r].existingIssues[1].description = cfg.issueDescription
        /\ MutatingCallsOf(r) = <<>>

-----------------------------------------------------------------------------
(* Claims about a second run *)

\* run r was started after a run that succeeded with CreateNew or
\* UpdateExisting, with the same inputs, on the state that run left
AfterSync(r) ==
    /\ r - 1 \in RunIds
    /\ pc[r - 1] = "done"
    /\ loc[r - 1].action \in {"CreateNew", "UpdateExisting"}
    /\ pc[r] # "off"

\* C24: a second run with the same inputs, after a run that succeeded with
\* CreateNew or UpdateExisting and with no outside change, issues no create,
\* update or sprint assignment, and when it ends it has emitted the key the
\* first run emitted.
C24_SecondRunIsNoOp ==
    \A r \in RunIds :
        AfterSync(r) =>
            /\ MutatingCallsOf(r) = <<>>
            /\ pc[r] = "done" => out[r].issue_key = out[r - 1].issue_key

\* the same for part_001 alone, whose trailer literal the comparison strips
C24_SecondRunIsNoOpKanban == cfg.variant = "kanban" => C24_SecondRunIsNoOp

W_C24_SecondRunDone ==
    \E r \in RunIds :
        /\ AfterSync(r) /\ pc[r] = "done" /\ cfg.variant = "kanban"
        /\ loc[r].action = "NoOp"
        /\ out[r].issue_key = out[r - 1].issue_key

=============================================================================
